---- MODULE Spec2Model ----
(***************************************************************************)
(* State-machine model of the embedding store (DatabaseManager, db.ts),    *)
(* the indexing coordinator (SimilarNotesPlugin.updateNoteEmbedding and    *)
(* reindexAllNotes) and the embedding provider wrapper (EmbeddingManager,  *)
(* embedding.ts).  Every asynchronous operation is a task; a task yields   *)
(* at each await of the source (adapter.read, adapter.write, vault.read,   *)
(* the provider request, the 10 ms timer) and tasks interleave there.      *)
(* The similarity query (DatabaseManager.findSimilarNotes) is a task too;   *)
(* its scoring, sorting and truncation are operators computed as the code  *)
(* computes them.                                                          *)
(***************************************************************************)
EXTENDS Integers, Sequences, FiniteSets, TLC

VARIABLES
    disk,        \* the durable blob embeddings.json: ordered entries path -> EmbeddingData
    corrupt,     \* the bytes of the blob are not JSON (a damaged file): JSON.parse throws,
                 \* disk is then what the bytes were meant to hold
    mtime,       \* file.stat.mtime of every document (live TFile stat)
    content,     \* current content of every document (NoContent: the document was deleted)
    hist,        \* history: hist[k][v] is the content document k had at version v
    clock,       \* wall clock (Date.now / new Date().getTime())
    openai,      \* EmbeddingManager.openai is set (API key given at construction)
    openaiApiKey, \* settings.openaiApiKey
    updateCallbacks, \* DatabaseManager.updateCallbacks, in the order of registration
    currentPath, \* SimilarNotesView.currentPath (NoKey: null)
    contentElement, \* what SimilarNotesView.contentElement shows, and for which note
    tasks,       \* the asynchronous operations, one record per task slot
    errorLogs,   \* settings.errorLogs, most recent first
    faults,      \* failures of the provider and of the durable write so far
    ret          \* the latest updateNoteEmbedding call that settled, and how

vars == <<disk, corrupt, mtime, content, hist, clock, openai, openaiApiKey, updateCallbacks, currentPath, contentElement, tasks, errorLogs, ret, faults>>

-----------------------------------------------------------------------------
(* Bounds of the model *)

MaxTasks == 2
MaxTime == 1
MaxFaults == 1
MaxResults == 2
MaxCallbacks == 2
MaxExtra == 2

(* Program constants *)

maxErrorLogs == 50

Tasks == 1..MaxTasks
Keys == {"a.md", "b.md"}
KeySeq == <<"a.md", "b.md">>
Contents == {"", "x", "y"}
\* The texts made of whitespace only, and the texts a document may hold before any edit.
WhitespaceOnly == {"", " "}
Texts == Contents \cup WhitespaceOnly
NoContent == "-"
NoKey == "-"
\* The paths a store may hold; "c.md" is the path of no file of the vault.
FindKeys == Keys \cup {"c.md"}

-----------------------------------------------------------------------------
(* embedding.ts *)

\* The provider's answer for a text: a fixed vector per text.
Embed(text) ==
    CASE text = "x" -> <<1, 0>>
      [] text = "y" -> <<0, 1>>
      [] OTHER      -> <<1, 1>>

\* The failures of openai.embeddings.create as generateEmbedding rethrows them.
ProviderErrors == {"InvalidKey", "RateLimit", "ServerError", "Unknown"}

\* String.prototype.trim on the texts of the model: the only whitespace is in the texts
\* made of nothing else.
Trim(text) == IF text \in WhitespaceOnly THEN "" ELSE text

\* !text || text.trim().length === 0
IsBlank(text) == text = "" \/ Trim(text) = ""

\* The values of the API key setting: none, blanks only, a key.
ApiKeys == {"", " ", "sk-1"}

\* new EmbeddingManager(apiKey): the client is created when the key is not blank.
EmbeddingManager(apiKey) == apiKey # "" /\ Trim(apiKey) # ""

\* Variant: the text is not checked.
GenerateEmbeddingPreNoCheck(client, text) ==
    IF ~client THEN "NoApiKey" ELSE "none"

\* generateEmbedding up to its await: the error thrown before any request, or "none".
GenerateEmbeddingPre(client, text) ==
    IF ~client THEN "NoApiKey"
    ELSE IF IsBlank(text) THEN "EmptyText"
    ELSE "none"

RECURSIVE DotFrom(_, _, _)
\* vec1.reduce((sum, a, i) => sum + a * vec2[i], 0), from index i on
DotFrom(vec1, vec2, i) ==
    IF i > Len(vec1) THEN 0 ELSE vec1[i] * vec2[i] + DotFrom(vec1, vec2, i + 1)

DotProduct(vec1, vec2) == DotFrom(vec1, vec2, 1)

\* calculateCosineSimilarity throws when the lengths differ.
LengthMismatch(vec1, vec2) == Len(vec1) # Len(vec2)

\* A similarity dotProduct / (norm1 * norm2) is kept exactly, as its signed square
\* num / den = sign(dot) * dot^2 / (norm1^2 * norm2^2), which orders as the quotient does;
\* den = 0 is the NaN of a zero norm.  Rounding of the floating-point quotient is left out.
Sim(num, den) == [num |-> num, den |-> den]

\* calculateCosineSimilarity for vectors of equal length.
CalculateCosineSimilarity(vec1, vec2) ==
    LET dot == DotProduct(vec1, vec2)
    IN  Sim((IF dot < 0 THEN 0 - 1 ELSE 1) * dot * dot,
            DotProduct(vec1, vec1) * DotProduct(vec2, vec2))

IsNaN(x) == x.den = 0

\* Variant: the comparison is strict.
GreaterStrict(x, y) == ~IsNaN(x) /\ ~IsNaN(y) /\ x.num * y.den > y.num * x.den

\* x >= y on numbers: false when either is NaN.
GreaterEq(x, y) == ~IsNaN(x) /\ ~IsNaN(y) /\ x.num * y.den >= y.num * x.den

\* x < y on numbers: false when either is NaN.
Less(x, y) == ~IsNaN(x) /\ ~IsNaN(y) /\ x.num * y.den < y.num * x.den

-----------------------------------------------------------------------------
(* db.ts: the mapping is a JavaScript object, i.e. an insertion-ordered list of entries *)

EmptyDb == <<>>

Paths(db) == {db[i].path : i \in 1..Len(db)}

Has(db, k) == k \in Paths(db)

IndexOf(db, k) == CHOOSE i \in 1..Len(db) : db[i].path = k

Get(db, k) == db[IndexOf(db, k)]

\* Variant: the record is stored without the version it was computed for.
EmbeddingDataNoVersion(k, embedding, file_mtime) ==
    [path |-> k, embedding |-> embedding, file_mtime |-> 0]

\* last_updated (the time of the write) is left out: no code path reads it.
EmbeddingData(k, embedding, file_mtime) ==
    [path |-> k, embedding |-> embedding, file_mtime |-> file_mtime]

\* Variant: the record of an existing key is kept.
PutIfAbsent(db, k, embedding, file_mtime) ==
    IF Has(db, k) THEN db ELSE Append(db, EmbeddingData(k, embedding, file_mtime))

\* db[filePath] = {...}: an existing key keeps its place, a new key is appended.
Put(db, k, embedding, file_mtime) ==
    IF Has(db, k)
        THEN [db EXCEPT ![IndexOf(db, k)] = EmbeddingData(k, embedding, file_mtime)]
        ELSE Append(db, EmbeddingData(k, embedding, file_mtime))

\* Variant: nothing is removed.
DeleteNothing(db, k) == db

\* delete db[filePath]
Delete(db, k) ==
    IF Has(db, k)
        THEN SubSeq(db, 1, IndexOf(db, k) - 1) \o SubSeq(db, IndexOf(db, k) + 1, Len(db))
        ELSE db

\* Variant: no catch around JSON.parse, the damaged mapping is used as it is.
LoadDatabaseUnchecked(blob) == blob

\* loadDatabase: JSON.parse of the blob that was read; {} when it throws.  JSON.stringify
\* and JSON.parse keep the order of the keys and every finite number as it is.
LoadDatabase(blob) == IF corrupt THEN EmptyDb ELSE blob

\* A SimilarNote; its title (the file name without .md) is only displayed and left out.
SimilarNote(path, similarity) == [path |-> path, similarity |-> similarity]

\* Variant: the entry of the query path is scored like any other.
PushedWithSelf(entry, notePath, embedding, minSimilarity) ==
    IF LengthMismatch(embedding, entry.embedding) THEN <<>>
    ELSE IF GreaterEq(CalculateCosineSimilarity(embedding, entry.embedding), minSimilarity)
        THEN <<SimilarNote(entry.path, CalculateCosineSimilarity(embedding, entry.embedding))>>
    ELSE <<>>

\* Variant: an entry of another dimension is reported as a perfect match.
PushedMismatch(entry, notePath, embedding, minSimilarity) ==
    IF entry.path = notePath THEN <<>>
    ELSE IF LengthMismatch(embedding, entry.embedding)
        THEN <<SimilarNote(entry.path, Sim(1, 1))>>
    ELSE IF GreaterEq(CalculateCosineSimilarity(embedding, entry.embedding), minSimilarity)
        THEN <<SimilarNote(entry.path, CalculateCosineSimilarity(embedding, entry.embedding))>>
    ELSE <<>>

\* The body of the loop of findSimilarNotes for one entry: what it pushes.
Pushed(entry, notePath, embedding, minSimilarity) ==
    IF entry.path = notePath THEN <<>>
    ELSE IF LengthMismatch(embedding, entry.embedding) THEN <<>>
    ELSE IF GreaterEq(CalculateCosineSimilarity(embedding, entry.embedding), minSimilarity)
        THEN <<SimilarNote(entry.path, CalculateCosineSimilarity(embedding, entry.embedding))>>
    ELSE <<>>

RECURSIVE SimilaritiesFrom(_, _, _, _, _)
\* for (const [path, data] of Object.entries(allEmbeddings)), from entry i on
SimilaritiesFrom(allEmbeddings, i, notePath, embedding, minSimilarity) ==
    IF i > Len(allEmbeddings) THEN <<>>
    ELSE Pushed(allEmbeddings[i], notePath, embedding, minSimilarity)
         \o SimilaritiesFrom(allEmbeddings, i + 1, notePath, embedding, minSimilarity)

\* Variant: no sort, the matches stay in the order of the scan.
InsertUnsorted(sorted, x) == Append(sorted, x)

\* The place of x in a list sorted by (a, b) => b.similarity - a.similarity: before the
\* first element of smaller similarity (the sort is stable).
InsertSorted(sorted, x) ==
    LET smaller == {j \in 1..Len(sorted) : Less(sorted[j].similarity, x.similarity)}
        at == IF smaller = {} THEN Len(sorted) + 1
              ELSE CHOOSE j \in smaller : \A i \in smaller : j <= i
    IN  SubSeq(sorted, 1, at - 1) \o <<x>> \o SubSeq(sorted, at, Len(sorted))

RECURSIVE SortPrefix(_, _)
SortPrefix(similarities, n) ==
    IF n = 0 THEN <<>> ELSE InsertSorted(SortPrefix(similarities, n - 1), similarities[n])

\* similarities.sort((a, b) => b.similarity - a.similarity)
SortBySimilarity(similarities) == SortPrefix(similarities, Len(similarities))

\* Variant: no truncation.
SliceAll(list, end) == list

\* Array.prototype.slice(0, end): a negative end counts from the end of the array.
Slice(list, end) ==
    LET e == IF end < 0 THEN (IF Len(list) + end < 0 THEN 0 ELSE Len(list) + end)
             ELSE IF end > Len(list) THEN Len(list) ELSE end
    IN  SubSeq(list, 1, e)

\* The part of findSimilarNotes after both loads: scan, sort, truncate.
FindSimilar(allEmbeddings, notePath, embedding, maxResults, minSimilarity) ==
    Slice(SortBySimilarity(SimilaritiesFrom(allEmbeddings, 1, notePath, embedding, minSimilarity)),
          maxResults)

-----------------------------------------------------------------------------
(* main.ts: the error log *)

\* The entry's timestamp (Date.now()) is left out: it is only displayed.
ErrorEntry(message, k, e) ==
    [message |-> message, path |-> k, details |-> e]

\* The entry with its timestamp (Date.now()), which tells the entries of a log apart.
ErrorLogEntry(timestamp, message, e) ==
    [timestamp |-> timestamp, message |-> message, details |-> e]

\* Variant: a full log is trimmed from the front, the newest entry goes.
LogErrorKeepLast(logs, entry) ==
    LET l == <<entry>> \o logs
    IN  IF Len(l) > maxErrorLogs THEN SubSeq(l, 2, Len(l)) ELSE l

\* logError: unshift the entry, then trim to maxErrorLogs.
LogError(logs, entry) ==
    LET l == <<entry>> \o logs
    IN  IF Len(l) > maxErrorLogs THEN SubSeq(l, 1, maxErrorLogs) ELSE l

-----------------------------------------------------------------------------
(* ui.ts: the view *)

\* The content of the view: the text or the list it shows, and the note whose query
\* put it there (not displayed; NoKey for the placeholder).
Shown(path, text, matches) == [path |-> path, text |-> text, matches |-> matches]

-----------------------------------------------------------------------------
(* Tasks *)

IdleTask ==
    [kind |-> "idle", pc |-> "idle", key |-> NoKey, force |-> FALSE,
     db |-> EmptyDb, text |-> NoContent, embedding |-> <<>>, file_mtime |-> 0,
     result |-> "none", err |-> "none", pre |-> "none", seen |-> "none",
     calls |-> 0, writes |-> 0, notified |-> 0, invoked |-> <<>>,
     files |-> <<>>, idx |-> 0, outcomes |-> <<>>,
     updatedCount |-> 0, skippedCount |-> 0, errorCount |-> 0,
     maxResults |-> 0, minSimilarity |-> Sim(0, 1), results |-> <<>>,
     cancel |-> FALSE]

UpdateKinds == {"update", "handler", "reindex"}
DbKinds == {"save", "delete", "clear"}
ReadKinds == {"find", "get", "getAll"}

\* A new task takes the lowest unused slot.
Free(t) == tasks[t].kind = "idle" /\ \A u \in 1..(t - 1) : tasks[u].kind # "idle"

\* No operation is in flight.
Quiet == \A t \in Tasks : tasks[t].pc \in {"idle", "done"}

\* Variant: the catch block swallows every error.
UpdateCatchSwallow(e) == "false"

\* The catch block of updateNoteEmbedding: the value returned, or "throw" when rethrown.
UpdateCatch(e) == IF e = "NoApiKey" THEN "false" ELSE "throw"

\* How the stored record of k stands against version v (an observation, not a step of the code).
Stored(db, k, v) ==
    IF ~Has(db, k) THEN "absent"
    ELSE IF Get(db, k).file_mtime >= v THEN "current" ELSE "stale"

\* Variant: forceUpdate is ignored, the staleness test always runs.
BeginCallNoForce(tk, k, forceUpdate, v) ==
    [tk EXCEPT !.key = k, !.force = forceUpdate,
               !.pc = "check",
               !.db = EmptyDb, !.text = NoContent, !.embedding = <<>>, !.file_mtime = 0,
               !.result = "none", !.err = "none",
               !.pre = Stored(disk, k, v), !.seen = "none",
               !.calls = 0, !.writes = 0]

\* updateNoteEmbedding is entered: its synchronous part up to the first await.
\* pre observes the stored state at entry, against the document's version v at that time;
\* seen is what the call itself will read.
BeginCall(tk, k, forceUpdate, v) ==
    [tk EXCEPT !.key = k, !.force = forceUpdate,
               !.pc = IF forceUpdate THEN "read" ELSE "check",
               !.db = EmptyDb, !.text = NoContent, !.embedding = <<>>, !.file_mtime = 0,
               !.result = "none", !.err = "none",
               !.pre = Stored(disk, k, v), !.seen = "none",
               !.calls = 0, !.writes = 0]

\* Variant: a throw is counted as skipped.
TallyMiscount(tk, res) ==
    [tk EXCEPT !.updatedCount = IF res = "true" THEN @ + 1 ELSE @,
               !.skippedCount = IF res # "true" THEN @ + 1 ELSE @,
               !.idx = @ + 1,
               !.pc = "sleep"]

\* The loop body of reindexAllNotes after updateNoteEmbedding settled: the tally.
Tally(tk, res) ==
    [tk EXCEPT !.updatedCount = IF res = "true" THEN @ + 1 ELSE @,
               !.skippedCount = IF res = "false" THEN @ + 1 ELSE @,
               !.errorCount = IF res = "throw" THEN @ + 1 ELSE @,
               !.idx = @ + 1,
               !.pc = "sleep"]

\* No call has settled yet (or the document was edited since).
NoRet ==
    [key |-> NoKey, force |-> FALSE, pre |-> "none", seen |-> "none",
     result |-> "none", err |-> "none", calls |-> 0, writes |-> 0,
     prev |-> "none", prevCalls |-> 0]

\* The record of a settled call: what it was asked, what it saw and did, how it ended,
\* and how the call that settled just before it on the same document ended.
Outcome(tk, res, e) ==
    [key |-> tk.key, force |-> tk.force, pre |-> tk.pre, seen |-> tk.seen,
     result |-> res, err |-> e, calls |-> tk.calls, writes |-> tk.writes,
     prev |-> IF ret.key = tk.key THEN ret.result ELSE "none",
     prevCalls |-> IF ret.key = tk.key THEN ret.calls ELSE 0]

\* The task after its operation returned res ("throw": it threw e).
Returned(tk, res, e) ==
    IF tk.kind = "reindex"
        THEN Tally([tk EXCEPT !.result = res, !.err = e, !.db = EmptyDb, !.text = NoContent,
                              !.embedding = <<>>, !.file_mtime = 0,
                              !.outcomes = Append(@, [key |-> tk.key, result |-> res, err |-> e,
                                                      writes |-> tk.writes])],
                   res)
    ELSE IF tk.kind \in DbKinds \cup ReadKinds
        THEN [tk EXCEPT !.result = res, !.err = e, !.db = EmptyDb, !.pc = "done"]
    ELSE IdleTask

\* What the caller does with the outcome: reindexAllNotes and the modify handler log a throw.
Complete(t, tk, res, e) ==
    /\ tasks' = [tasks EXCEPT ![t] = Returned(tk, res, e)]
    /\ errorLogs' =
         IF res = "throw" /\ tk.kind = "reindex"
             THEN LogError(errorLogs, ErrorEntry("Error indexing", tk.key, e))
         ELSE IF res = "throw" /\ tk.kind = "handler"
             THEN LogError(errorLogs, ErrorEntry("Error updating embedding", tk.key, e))
         ELSE errorLogs
    /\ ret' = IF tk.kind \in UpdateKinds THEN Outcome(tk, res, e) ELSE ret

-----------------------------------------------------------------------------
(* Initial state: an empty store, two documents written at time 0 *)

Init ==
    /\ disk = EmptyDb
    /\ corrupt = FALSE
    /\ mtime = [k \in Keys |-> 0]
    /\ content = [k \in Keys |-> IF k = "a.md" THEN "x" ELSE "y"]
    /\ hist = [k \in Keys |-> [v \in 0..MaxTime |-> IF k = "a.md" THEN "x" ELSE "y"]]
    /\ clock = 0
    /\ openaiApiKey \in {"", "sk-1"}
    /\ openai = EmbeddingManager(openaiApiKey)
    /\ updateCallbacks = <<1>>
    /\ currentPath = NoKey
    /\ contentElement = Shown(NoKey, "Open a note to see similar notes.", <<>>)
    /\ tasks = [t \in Tasks |-> IdleTask]
    /\ errorLogs = <<>>
    /\ ret = NoRet
    /\ faults = 0

-----------------------------------------------------------------------------
(* The environment: the vault *)

\* A document is edited: changed content, mtime = now; the vault fires 'modify', whose
\* handler calls updateNoteEmbedding(file.path) and logs a rejection.
Modify(t, k, c) ==
    /\ clock < MaxTime
    /\ c # content[k]
    /\ Free(t)
    /\ clock' = clock + 1
    /\ mtime' = [mtime EXCEPT ![k] = clock + 1]
    /\ content' = [content EXCEPT ![k] = c]
    /\ hist' = [hist EXCEPT ![k] = [v \in 0..MaxTime |-> IF v >= clock + 1 THEN c ELSE hist[k][v]]]
    /\ tasks' = [tasks EXCEPT ![t] =
                    BeginCall([IdleTask EXCEPT !.kind = "handler"], k, FALSE, clock + 1)]
    /\ ret' = NoRet
    /\ UNCHANGED <<disk, corrupt, openai, openaiApiKey, updateCallbacks, currentPath, contentElement, errorLogs, faults>>

\* A document is deleted: the vault fires 'delete', for which onload registers no handler
\* (its only vault handler is the one for 'modify'); the event changes nothing else.
DeleteFile(k) ==
    /\ content[k] # NoContent
    /\ content' = [content EXCEPT ![k] = NoContent]
    /\ UNCHANGED <<disk, corrupt, mtime, hist, clock, openai, openaiApiKey, updateCallbacks, currentPath, contentElement, tasks, errorLogs, ret, faults>>

\* vault.getAbstractFileByPath(path) is a markdown file.
IsMarkdownFile(k) == k \in Keys /\ content[k] # NoContent

\* A document is restored from a backup: older content with its older mtime.
Restore(t, k, v) ==
    /\ v < mtime[k]
    /\ Free(t)
    /\ mtime' = [mtime EXCEPT ![k] = v]
    /\ content' = [content EXCEPT ![k] = hist[k][v]]
    /\ tasks' = [tasks EXCEPT ![t] =
                    BeginCall([IdleTask EXCEPT !.kind = "handler"], k, FALSE, v)]
    /\ ret' = NoRet
    /\ UNCHANGED <<disk, corrupt, hist, clock, openai, openaiApiKey, updateCallbacks, currentPath, contentElement, errorLogs, faults>>

-----------------------------------------------------------------------------
(* updateNoteEmbedding *)

\* A direct call updateNoteEmbedding(filePath, forceUpdate).
StartUpdate(t, k, forceUpdate) ==
    /\ Free(t)
    /\ tasks' = [tasks EXCEPT ![t] = BeginCall([IdleTask EXCEPT !.kind = "update"], k, forceUpdate, mtime[k])]
    /\ UNCHANGED <<disk, corrupt, mtime, content, hist, clock, openai, openaiApiKey, updateCallbacks, currentPath, contentElement, errorLogs, ret, faults>>

\* Variant: only a strictly newer record counts as current.
IsCurrentStrict(db, k, stat_mtime) == Has(db, k) /\ Get(db, k).file_mtime > stat_mtime

\* Variant: only a record of exactly the current version counts as current.
IsCurrentExact(db, k, stat_mtime) == Has(db, k) /\ Get(db, k).file_mtime = stat_mtime

\* existingEmbedding.file_mtime >= file.stat.mtime
IsCurrent(db, k, stat_mtime) == Has(db, k) /\ Get(db, k).file_mtime >= stat_mtime

\* await getEmbedding resolves: the staleness test of lines 203-207.
CheckExisting(t) ==
    LET tk == tasks[t]
        db == LoadDatabase(disk)
        cur == IsCurrent(db, tk.key, mtime[tk.key])
        sn == Stored(db, tk.key, mtime[tk.key])
    IN  /\ tk.pc = "check"
        /\ IF cur
             THEN Complete(t, [tk EXCEPT !.seen = sn], "false", "none") /\ UNCHANGED faults
             ELSE /\ tasks' = [tasks EXCEPT ![t] = [tk EXCEPT !.seen = sn, !.pc = "read"]]
                  /\ UNCHANGED <<errorLogs, ret, faults>>
        /\ UNCHANGED <<disk, corrupt, mtime, content, hist, clock, openai, openaiApiKey, updateCallbacks, currentPath, contentElement>>

\* await vault.read resolves, generateEmbedding runs up to the provider request.
ReadContent(t) ==
    LET tk == tasks[t]
        text == content[tk.key]
        e == GenerateEmbeddingPre(openai, text)
    IN  /\ tk.pc = "read"
        /\ IF e # "none"
             THEN Complete(t, [tk EXCEPT !.text = text], UpdateCatch(e), e) /\ UNCHANGED faults
             ELSE /\ tasks' = [tasks EXCEPT ![t] =
                                 [tk EXCEPT !.text = text, !.calls = @ + 1, !.pc = "embed"]]
                  /\ UNCHANGED <<errorLogs, ret, faults>>
        /\ UNCHANGED <<disk, corrupt, mtime, content, hist, clock, openai, openaiApiKey, updateCallbacks, currentPath, contentElement>>

\* The provider answers: saveEmbedding(filePath, embedding, file.stat.mtime) is called,
\* its arguments evaluated now, and awaits loadDatabase.
EmbedOk(t) ==
    LET tk == tasks[t]
    IN  /\ tk.pc = "embed"
        /\ tasks' = [tasks EXCEPT ![t] =
                        [tk EXCEPT !.embedding = Embed(tk.text),
                                   !.file_mtime = mtime[tk.key],
                                   !.pc = "load"]]
        /\ UNCHANGED <<disk, corrupt, mtime, content, hist, clock, openai, openaiApiKey, updateCallbacks, currentPath, contentElement, errorLogs, ret, faults>>

\* The provider request fails: generateEmbedding rethrows, updateNoteEmbedding's catch decides.
EmbedFail(t, e) ==
    LET tk == tasks[t]
    IN  /\ tk.pc = "embed"
        /\ faults < MaxFaults
        /\ faults' = faults + 1
        /\ Complete(t, tk, UpdateCatch(e), e)
        /\ UNCHANGED <<disk, corrupt, mtime, content, hist, clock, openai, openaiApiKey, updateCallbacks, currentPath, contentElement>>

-----------------------------------------------------------------------------
(* saveEmbedding / deleteEmbedding / clearDatabase *)

StartSave(t, k, embedding, file_mtime) ==
    /\ Free(t)
    /\ tasks' = [tasks EXCEPT ![t] =
                    [IdleTask EXCEPT !.kind = "save", !.pc = "load", !.key = k,
                                     !.embedding = embedding, !.file_mtime = file_mtime]]
    /\ UNCHANGED <<disk, corrupt, mtime, content, hist, clock, openai, openaiApiKey, updateCallbacks, currentPath, contentElement, errorLogs, ret, faults>>

StartDelete(t, k) ==
    /\ Free(t)
    /\ tasks' = [tasks EXCEPT ![t] = [IdleTask EXCEPT !.kind = "delete", !.pc = "load", !.key = k]]
    /\ UNCHANGED <<disk, corrupt, mtime, content, hist, clock, openai, openaiApiKey, updateCallbacks, currentPath, contentElement, errorLogs, ret, faults>>

\* clearDatabase: saveDatabase({}) without a load.
StartClear(t) ==
    /\ Free(t)
    /\ tasks' = [tasks EXCEPT ![t] = [IdleTask EXCEPT !.kind = "clear", !.pc = "write", !.db = EmptyDb]]
    /\ UNCHANGED <<disk, corrupt, mtime, content, hist, clock, openai, openaiApiKey, updateCallbacks, currentPath, contentElement, errorLogs, ret, faults>>

\* How the operation that awaits the failed step ends: updateNoteEmbedding has its catch,
\* findSimilarNotes catches everything in its bootstrap and returns [], the operations of
\* DatabaseManager have no catch around the write.
Caught(tk, e) ==
    IF tk.kind \in UpdateKinds THEN UpdateCatch(e)
    ELSE IF tk.kind = "find" THEN "ok"
    ELSE "throw"

\* Variant: the callbacks are notified whether the write succeeded or not.
NotifiedAlways(tk, written) == tk.notified + 1

\* saveDatabase: notifyUpdateCallbacks runs after the awaited write, so only when it succeeded.
Notified(tk, written) == IF written THEN tk.notified + 1 ELSE tk.notified

\* registerUpdateCallback: the callback goes to the end of the list.  Every registration
\* is a closure of its own, named by its rank.
RegisterUpdateCallback ==
    /\ Len(updateCallbacks) < MaxCallbacks
    /\ updateCallbacks' = Append(updateCallbacks, Len(updateCallbacks) + 1)
    /\ UNCHANGED <<disk, corrupt, mtime, content, hist, clock, openai, openaiApiKey, currentPath, contentElement, tasks, errorLogs, ret, faults>>

\* Variant: the loop returns after the first callback.
NotifyFirstOnly(callbacks) == SubSeq(callbacks, 1, 1)

\* notifyUpdateCallbacks: the callbacks called, in order.  The callback of the plugin
\* starts an async function (updateDbStats) and cannot throw into the loop.
NotifyUpdateCallbacks(callbacks) == callbacks

\* The mapping a mutating operation builds from the mapping it loaded.
Modified(tk, db) ==
    IF tk.kind = "delete"
        THEN Delete(db, tk.key)
        ELSE Put(db, tk.key, tk.embedding, tk.file_mtime)

\* What a load of DatabaseManager finds in the file.
Blob == IF corrupt THEN "corrupt" ELSE "json"

\* await loadDatabase resolves: the in-memory copy is modified, saveDatabase awaits the write.
LoadStep(t) ==
    LET tk == tasks[t]
    IN  /\ tk.pc = "load"
        /\ tasks' = [tasks EXCEPT ![t] =
                        [tk EXCEPT !.db = Modified(tk, LoadDatabase(disk)), !.pc = "write",
                                   !.seen = IF tk.kind \in DbKinds THEN Blob ELSE @]]
        /\ UNCHANGED <<disk, corrupt, mtime, content, hist, clock, openai, openaiApiKey, updateCallbacks, currentPath, contentElement, errorLogs, ret, faults>>

\* adapter.read rejects (storage unavailable): the catch of loadDatabase returns {} and the
\* operation goes on with the empty mapping.
LoadFail(t) ==
    LET tk == tasks[t]
    IN  /\ tk.pc = "load"
        /\ faults < MaxFaults
        /\ faults' = faults + 1
        /\ tasks' = [tasks EXCEPT ![t] =
                        [tk EXCEPT !.db = Modified(tk, EmptyDb), !.pc = "write",
                                   !.seen = IF tk.kind \in DbKinds THEN "unreadable" ELSE @]]
        /\ UNCHANGED <<disk, corrupt, mtime, content, hist, clock, openai, openaiApiKey, updateCallbacks, currentPath, contentElement, errorLogs, ret>>

\* adapter.write lands: the whole mapping replaces the blob; the operation returns.
WriteOk(t) ==
    LET tk == tasks[t]
    IN  /\ tk.pc = "write"
        /\ disk' = tk.db
        /\ corrupt' = FALSE
        /\ Complete(t, [tk EXCEPT !.writes = @ + 1, !.notified = Notified(tk, TRUE),
                                   !.invoked = NotifyUpdateCallbacks(updateCallbacks)],
                    IF tk.kind \in UpdateKinds THEN "true" ELSE "ok", "none")
        /\ UNCHANGED faults
        /\ UNCHANGED <<mtime, content, hist, clock, openai, openaiApiKey, updateCallbacks, currentPath, contentElement>>

\* adapter.write rejects: saveDatabase throws through to the caller.
WriteFail(t) ==
    LET tk == tasks[t]
    IN  /\ tk.pc = "write"
        /\ faults < MaxFaults
        /\ faults' = faults + 1
        /\ Complete(t, [tk EXCEPT !.notified = Notified(tk, FALSE)],
                    Caught(tk, "StorageError"), "StorageError")
        /\ UNCHANGED <<disk, corrupt, mtime, content, hist, clock, openai, openaiApiKey, updateCallbacks, currentPath, contentElement>>

-----------------------------------------------------------------------------
(* getEmbedding / getAllEmbeddings *)

StartGet(t, k) ==
    /\ Free(t)
    /\ tasks' = [tasks EXCEPT ![t] = [IdleTask EXCEPT !.kind = "get", !.pc = "get", !.key = k]]
    /\ UNCHANGED <<disk, corrupt, mtime, content, hist, clock, openai, openaiApiKey, updateCallbacks, currentPath, contentElement, errorLogs, ret, faults>>

StartGetAll(t) ==
    /\ Free(t)
    /\ tasks' = [tasks EXCEPT ![t] = [IdleTask EXCEPT !.kind = "getAll", !.pc = "get"]]
    /\ UNCHANGED <<disk, corrupt, mtime, content, hist, clock, openai, openaiApiKey, updateCallbacks, currentPath, contentElement, errorLogs, ret, faults>>

\* await loadDatabase resolves: getEmbedding returns db[filePath] || null, getAllEmbeddings
\* returns the mapping (kept in db).
GetStep(t) ==
    LET tk == tasks[t]
        db == LoadDatabase(disk)
    IN  /\ tk.kind \in {"get", "getAll"} /\ tk.pc = "get"
        /\ tasks' = [tasks EXCEPT ![t] =
                        IF tk.kind = "getAll"
                            THEN [tk EXCEPT !.db = db, !.seen = Blob, !.result = "ok", !.pc = "done"]
                        ELSE IF Has(db, tk.key)
                            THEN [tk EXCEPT !.embedding = Get(db, tk.key).embedding,
                                            !.file_mtime = Get(db, tk.key).file_mtime,
                                            !.seen = Blob, !.result = "found", !.pc = "done"]
                        ELSE [tk EXCEPT !.seen = Blob, !.result = "null", !.pc = "done"]]
        /\ UNCHANGED <<disk, corrupt, mtime, content, hist, clock, openai, openaiApiKey, updateCallbacks, currentPath, contentElement, errorLogs, ret, faults>>

-----------------------------------------------------------------------------
(* reindexAllNotes *)

\* reindexAllNotes(forceUpdate): files = getMarkdownFiles(), the first iteration begins.
StartReindex(t, forceUpdate) ==
    /\ Free(t)
    /\ \A u \in Tasks : tasks[u].kind # "reindex"
    /\ tasks' = [tasks EXCEPT ![t] =
                    BeginCall([IdleTask EXCEPT !.kind = "reindex", !.files = KeySeq],
                              KeySeq[1], forceUpdate, mtime[KeySeq[1]])]
    /\ UNCHANGED <<disk, corrupt, mtime, content, hist, clock, openai, openaiApiKey, updateCallbacks, currentPath, contentElement, errorLogs, ret, faults>>

\* The host asks the running reindexAllNotes to stop (the user, or the plugin being
\* disabled).  The request is only recorded: reindexAllNotes takes no signal and its loop
\* reads none.
RequestCancel(t) ==
    /\ tasks[t].kind = "reindex" /\ tasks[t].pc # "done"
    /\ ~tasks[t].cancel
    /\ tasks' = [tasks EXCEPT ![t].cancel = TRUE]
    /\ UNCHANGED <<disk, corrupt, mtime, content, hist, clock, openai, openaiApiKey, updateCallbacks, currentPath, contentElement, errorLogs, ret, faults>>

\* The 10 ms timer of the loop fires: the next file, or the loop ends.
ReindexNext(t) ==
    LET tk == tasks[t]
    IN  /\ tk.pc = "sleep"
        /\ tasks' = [tasks EXCEPT ![t] =
                        IF tk.idx < Len(tk.files)
                            THEN BeginCall(tk, tk.files[tk.idx + 1], tk.force, mtime[tk.files[tk.idx + 1]])
                            ELSE [tk EXCEPT !.pc = "done"]]
        /\ UNCHANGED <<disk, corrupt, mtime, content, hist, clock, openai, openaiApiKey, updateCallbacks, currentPath, contentElement, errorLogs, ret, faults>>

-----------------------------------------------------------------------------
(* findSimilarNotes *)

\* findSimilarNotes(notePath, maxResults, minSimilarity) is called: getEmbedding awaits its read.
StartFind(t, k, maxResults, minSimilarity) ==
    /\ Free(t)
    /\ tasks' = [tasks EXCEPT ![t] =
                    [IdleTask EXCEPT !.kind = "find", !.pc = "get", !.key = k,
                                     !.maxResults = maxResults, !.minSimilarity = minSimilarity]]
    /\ UNCHANGED <<disk, corrupt, mtime, content, hist, clock, openai, openaiApiKey, updateCallbacks, currentPath, contentElement, errorLogs, ret, faults>>

\* getEmbedding(notePath) resolves.  With a record: getAllEmbeddings awaits its read.
\* Without one: the bootstrap reads the file if it is a markdown file of the vault, and
\* findSimilarNotes returns [] at once if it is not.
FindGet(t) ==
    LET tk == tasks[t]
        db == LoadDatabase(disk)
    IN  /\ tk.kind = "find" /\ tk.pc = "get"
        /\ tasks' = [tasks EXCEPT ![t] =
                        IF Has(db, tk.key)
                            THEN [tk EXCEPT !.embedding = Get(db, tk.key).embedding,
                                            !.seen = "present", !.pc = "scan"]
                        ELSE IF IsMarkdownFile(tk.key)
                            THEN [tk EXCEPT !.seen = "absent", !.pc = "bootread"]
                        ELSE [tk EXCEPT !.seen = "absent", !.result = "ok", !.pc = "done"]]
        /\ UNCHANGED <<disk, corrupt, mtime, content, hist, clock, openai, openaiApiKey, updateCallbacks, currentPath, contentElement, errorLogs, ret, faults>>

\* Bootstrap: vault.read resolves and generateEmbedding runs up to its request; an error
\* thrown there is caught and [] is returned.
FindBootRead(t) ==
    LET tk == tasks[t]
        text == content[tk.key]
        e == GenerateEmbeddingPre(openai, text)
    IN  /\ tk.kind = "find" /\ tk.pc = "bootread"
        /\ tasks' = [tasks EXCEPT ![t] =
                        IF e # "none"
                            THEN [tk EXCEPT !.result = "ok", !.err = e, !.pc = "done"]
                            ELSE [tk EXCEPT !.text = text, !.calls = @ + 1, !.pc = "bootembed"]]
        /\ UNCHANGED <<disk, corrupt, mtime, content, hist, clock, openai, openaiApiKey, updateCallbacks, currentPath, contentElement, errorLogs, ret, faults>>

\* Variant: the bootstrap returns [] without storing the embedding.
FindBootEmbedDrop(t) ==
    LET tk == tasks[t]
    IN  /\ tk.kind = "find" /\ tk.pc = "bootembed"
        /\ tasks' = [tasks EXCEPT ![t] =
                        [tk EXCEPT !.embedding = Embed(tk.text), !.text = NoContent,
                                   !.result = "ok", !.pc = "done"]]
        /\ UNCHANGED <<disk, corrupt, mtime, content, hist, clock, openai, openaiApiKey, updateCallbacks, currentPath, contentElement, errorLogs, ret, faults>>

\* Bootstrap: the provider answers; saveEmbedding(notePath, embedding, new Date().getTime()).
FindBootEmbedOk(t) ==
    LET tk == tasks[t]
    IN  /\ tk.kind = "find" /\ tk.pc = "bootembed"
        /\ tasks' = [tasks EXCEPT ![t] =
                        [tk EXCEPT !.embedding = Embed(tk.text), !.file_mtime = clock,
                                   !.text = NoContent, !.pc = "load"]]
        /\ UNCHANGED <<disk, corrupt, mtime, content, hist, clock, openai, openaiApiKey, updateCallbacks, currentPath, contentElement, errorLogs, ret, faults>>

\* Bootstrap: the provider request fails; the error is caught and [] is returned.
FindBootEmbedFail(t, e) ==
    LET tk == tasks[t]
    IN  /\ tk.kind = "find" /\ tk.pc = "bootembed"
        /\ faults < MaxFaults
        /\ faults' = faults + 1
        /\ tasks' = [tasks EXCEPT ![t] =
                        [tk EXCEPT !.result = "ok", !.err = e, !.text = NoContent, !.pc = "done"]]
        /\ UNCHANGED <<disk, corrupt, mtime, content, hist, clock, openai, openaiApiKey, updateCallbacks, currentPath, contentElement, errorLogs, ret>>

\* 'file-open' with a markdown file: currentPath is set and updateSimilarNotes(file.path)
\* runs up to its await: the view shows 'Searching', findSimilarNotes is called with the
\* settings and awaits its first read.
FileOpen(t, k, maxResults, minSimilarity) ==
    /\ Free(t)
    /\ currentPath' = k
    /\ contentElement' = Shown(k, "Searching for similar notes...", <<>>)
    /\ tasks' = [tasks EXCEPT ![t] =
                    [IdleTask EXCEPT !.kind = "find", !.pc = "get", !.key = k,
                                     !.maxResults = maxResults, !.minSimilarity = minSimilarity]]
    /\ UNCHANGED <<disk, corrupt, mtime, content, hist, clock, openai, openaiApiKey, updateCallbacks, errorLogs, ret, faults>>

\* 'file-open' with no file or a file that is not markdown.
FileOpenOther ==
    /\ currentPath' = NoKey
    /\ contentElement' = Shown(NoKey, "Open a note to see similar notes.", <<>>)
    /\ UNCHANGED <<disk, corrupt, mtime, content, hist, clock, openai, openaiApiKey, updateCallbacks, tasks, errorLogs, ret, faults>>

\* updateSimilarNotes after its await: the view is emptied and the matches are listed.
UpdateView(tk) ==
    IF Len(tk.results) = 0 THEN Shown(tk.key, "No similar notes found.", <<>>)
    ELSE Shown(tk.key, "list", tk.results)

\* findSimilarNotes has returned to updateSimilarNotes, which renders.
Render(t) ==
    LET tk == tasks[t]
    IN  /\ tk.kind = "find" /\ tk.pc = "done"
        /\ contentElement' = UpdateView(tk)
        /\ tasks' = [tasks EXCEPT ![t] = [tk EXCEPT !.pc = "rendered"]]
        /\ UNCHANGED <<disk, corrupt, mtime, content, hist, clock, openai, openaiApiKey, updateCallbacks, currentPath, errorLogs, ret, faults>>

\* getAllEmbeddings resolves: the loop, the sort and the slice run; the list is returned.
\* The mapping that was scanned is kept in db.
FindScan(t) ==
    LET tk == tasks[t]
        allEmbeddings == LoadDatabase(disk)
    IN  /\ tk.kind = "find" /\ tk.pc = "scan"
        /\ tasks' = [tasks EXCEPT ![t] =
                        [tk EXCEPT !.db = allEmbeddings,
                                   !.results = FindSimilar(allEmbeddings, tk.key, tk.embedding,
                                                           tk.maxResults, tk.minSimilarity),
                                   !.result = "ok", !.pc = "done"]]
        /\ UNCHANGED <<disk, corrupt, mtime, content, hist, clock, openai, openaiApiKey, updateCallbacks, currentPath, contentElement, errorLogs, ret, faults>>

-----------------------------------------------------------------------------
(* Specifications *)

Vectors == {Embed(c) : c \in Contents \ {""}}

\* The store used directly: concurrent saveEmbedding, deleteEmbedding, clearDatabase.
NextDb ==
    \/ \E t \in Tasks, k \in Keys, v \in Vectors, m \in 0..MaxTime : StartSave(t, k, v, m)
    \/ \E t \in Tasks, k \in Keys : StartDelete(t, k)
    \/ \E t \in Tasks : StartClear(t)
    \/ \E t \in Tasks : LoadStep(t)
    \/ \E t \in Tasks : WriteOk(t)
    \/ \E t \in Tasks : WriteFail(t)

SpecDb == Init /\ [][NextDb]_vars

\* Incremental indexing: one run of reindexAllNotes(false) (the command, the settings
\* button or the startup run of onload), edits and their modify handlers interleave.
Next ==
    \/ \E t \in Tasks, k \in Keys, c \in Contents : Modify(t, k, c)
    \/ \E t \in Tasks : StartReindex(t, FALSE)
    \/ \E t \in Tasks : CheckExisting(t)
    \/ \E t \in Tasks : ReadContent(t)
    \/ \E t \in Tasks : EmbedOk(t)
    \/ \E t \in Tasks, e \in ProviderErrors : EmbedFail(t, e)
    \/ \E t \in Tasks : LoadStep(t)
    \/ \E t \in Tasks : WriteOk(t)
    \/ \E t \in Tasks : WriteFail(t)
    \/ \E t \in Tasks : ReindexNext(t)

Spec == Init /\ [][Next]_vars

\* One call at a time, against a provider and a storage that answer: an edit, a restore or a
\* direct call starts only when nothing is in flight.
NextSeq ==
    \/ \E t \in Tasks, k \in Keys, c \in Contents : Quiet /\ Modify(t, k, c)
    \/ \E t \in Tasks, k \in Keys, v \in 0..MaxTime : Quiet /\ Restore(t, k, v)
    \/ \E t \in Tasks, k \in Keys, f \in BOOLEAN : Quiet /\ StartUpdate(t, k, f)
    \/ \E t \in Tasks : CheckExisting(t)
    \/ \E t \in Tasks : ReadContent(t)
    \/ \E t \in Tasks : EmbedOk(t)
    \/ \E t \in Tasks : LoadStep(t)
    \/ \E t \in Tasks : WriteOk(t)

SpecSeq == Init /\ [][NextSeq]_vars

\* The vectors a store may hold: embeddings, one of another dimension, one of zero norm.
StoredVectors == Vectors \cup {<<1, 1>>, <<1>>, <<0, 0>>}

RECURSIVE StoresOf(_)
\* The mappings with exactly the paths ks, in every order of insertion.
StoresOf(ks) ==
    IF ks = {} THEN {<<>>}
    ELSE UNION {{Append(db, EmbeddingData(k, v, 0)) : v \in StoredVectors, db \in StoresOf(ks \ {k})}
                : k \in ks}

Stores == UNION {StoresOf(ks) : ks \in SUBSET FindKeys}

\* minSimilarity: 0, 0.5 and 1 (the setting accepts 0 to 1), as signed squares.
MinSimilarities == {Sim(0, 1), Sim(1, 4), Sim(1, 1)}

\* The state after onload with any store left by earlier runs.
InitFind ==
    /\ disk \in Stores
    /\ corrupt = FALSE
    /\ mtime = [k \in Keys |-> 0]
    /\ content = [k \in Keys |-> IF k = "a.md" THEN "x" ELSE "y"]
    /\ hist = [k \in Keys |-> [v \in 0..MaxTime |-> IF k = "a.md" THEN "x" ELSE "y"]]
    /\ clock = 0
    /\ openaiApiKey \in {"", "sk-1"}
    /\ openai = EmbeddingManager(openaiApiKey)
    /\ updateCallbacks = <<1>>
    /\ currentPath = NoKey
    /\ contentElement = Shown(NoKey, "Open a note to see similar notes.", <<>>)
    /\ tasks = [t \in Tasks |-> IdleTask]
    /\ errorLogs = <<>>
    /\ ret = NoRet
    /\ faults = 0

\* The mappings of the indexed documents with their embeddings, in every order.
RECURSIVE IndexedOf(_)
IndexedOf(ks) ==
    IF ks = {} THEN {<<>>}
    ELSE UNION {{Append(db, EmbeddingData(k, v, 0)) : v \in Vectors, db \in IndexedOf(ks \ {k})}
                : k \in ks}

\* The state after onload with a store left by earlier runs, or with a file that is not JSON.
InitStore ==
    /\ corrupt \in BOOLEAN
    /\ disk \in UNION {IndexedOf(ks) : ks \in SUBSET Keys}
    /\ mtime = [k \in Keys |-> 0]
    /\ content = [k \in Keys |-> IF k = "a.md" THEN "x" ELSE "y"]
    /\ hist = [k \in Keys |-> [v \in 0..MaxTime |-> IF k = "a.md" THEN "x" ELSE "y"]]
    /\ clock = 0
    /\ openaiApiKey = "sk-1"
    /\ openai = EmbeddingManager(openaiApiKey)
    /\ updateCallbacks = <<1>>
    /\ currentPath = NoKey
    /\ contentElement = Shown(NoKey, "Open a note to see similar notes.", <<>>)
    /\ tasks = [t \in Tasks |-> IdleTask]
    /\ errorLogs = <<>>
    /\ ret = NoRet
    /\ faults = 0

\* The operations of DatabaseManager called one after the other, each awaited, against a
\* storage that may reject a read or a write.
NextStore ==
    \/ \E t \in Tasks, k \in Keys, v \in Vectors, m \in {0, 1} : Quiet /\ StartSave(t, k, v, m)
    \/ \E t \in Tasks, k \in Keys : Quiet /\ StartDelete(t, k)
    \/ \E t \in Tasks : Quiet /\ StartClear(t)
    \/ \E t \in Tasks, k \in Keys : Quiet /\ StartGet(t, k)
    \/ \E t \in Tasks : Quiet /\ StartGetAll(t)
    \/ \E t \in Tasks : GetStep(t)
    \/ \E t \in Tasks : LoadStep(t)
    \/ \E t \in Tasks : LoadFail(t)
    \/ \E t \in Tasks : WriteOk(t)
    \/ \E t \in Tasks : WriteFail(t)

SpecStore == InitStore /\ [][NextStore]_vars

\* The store used directly on a mapping left by earlier runs (its records carry version 0):
\* saveEmbedding of a later version, deleteEmbedding and clearDatabase overlap.
NextClear ==
    \/ \E t \in Tasks, k \in Keys : StartSave(t, k, Embed(content[k]), 1)
    \/ \E t \in Tasks, k \in Keys : StartDelete(t, k)
    \/ \E t \in Tasks : StartClear(t)
    \/ \E t \in Tasks : LoadStep(t)
    \/ \E t \in Tasks : WriteOk(t)

SpecClear == InitStore /\ [][NextClear]_vars

\* The store with callbacks registered at any time: overlapping saveEmbedding,
\* deleteEmbedding and clearDatabase against a storage that may reject a write.
NextNotify ==
    \/ RegisterUpdateCallback
    \/ \E t \in Tasks, k \in Keys : StartSave(t, k, Embed(content[k]), 1)
    \/ \E t \in Tasks, k \in Keys : StartDelete(t, k)
    \/ \E t \in Tasks : StartClear(t)
    \/ \E t \in Tasks : LoadStep(t)
    \/ \E t \in Tasks : WriteOk(t)
    \/ \E t \in Tasks : WriteFail(t)

SpecNotify == InitStore /\ [][NextNotify]_vars

\* Documents are deleted while nothing is in flight, and one query of the view follows or
\* precedes: a store left by earlier runs, a provider and a storage that answer.
NextDelete ==
    \/ \E k \in Keys : Quiet /\ DeleteFile(k)
    \/ \E t \in Tasks, k \in FindKeys, n \in 1..MaxResults, m \in MinSimilarities :
           (\A u \in Tasks : tasks[u].kind = "idle") /\ StartFind(t, k, n, m)
    \/ \E t \in Tasks : FindGet(t)
    \/ \E t \in Tasks : FindBootRead(t)
    \/ \E t \in Tasks : FindBootEmbedOk(t)
    \/ \E t \in Tasks : LoadStep(t)
    \/ \E t \in Tasks : WriteOk(t)
    \/ \E t \in Tasks : FindScan(t)

SpecDelete == InitStore /\ [][NextDelete]_vars

\* The state after onload with a store left by earlier runs, documents of any content
\* (the empty one included) and an API key given or not.
InitBoot ==
    /\ disk \in UNION {IndexedOf(ks) : ks \in SUBSET Keys}
    /\ corrupt = FALSE
    /\ mtime = [k \in Keys |-> 0]
    /\ content \in [Keys -> Texts]
    /\ hist = [k \in Keys |-> [v \in 0..MaxTime |-> content[k]]]
    /\ clock = 0
    /\ openaiApiKey \in {"", "sk-1"}
    /\ openai = EmbeddingManager(openaiApiKey)
    /\ updateCallbacks = <<1>>
    /\ currentPath = NoKey
    /\ contentElement = Shown(NoKey, "Open a note to see similar notes.", <<>>)
    /\ tasks = [t \in Tasks |-> IdleTask]
    /\ errorLogs = <<>>
    /\ ret = NoRet
    /\ faults = 0

\* Queries of the view one after the other (settings: MaxResults matches, minSimilarity
\* 0.5), each awaited, against a provider and a storage that may fail.
NextBoot ==
    \/ \E t \in Tasks, k \in FindKeys : Quiet /\ StartFind(t, k, MaxResults, Sim(1, 4))
    \/ \E t \in Tasks : FindGet(t)
    \/ \E t \in Tasks : FindBootRead(t)
    \/ \E t \in Tasks : FindBootEmbedOk(t)
    \/ \E t \in Tasks, e \in ProviderErrors : FindBootEmbedFail(t, e)
    \/ \E t \in Tasks : LoadStep(t)
    \/ \E t \in Tasks : WriteOk(t)
    \/ \E t \in Tasks : WriteFail(t)
    \/ \E t \in Tasks : FindScan(t)

SpecBoot == InitBoot /\ [][NextBoot]_vars

\* A call logError(message, error) from any caller, at a later time than the call before.
LogErrorCall(message, e) ==
    /\ clock < maxErrorLogs + MaxExtra
    /\ clock' = clock + 1
    /\ errorLogs' = LogError(errorLogs, ErrorLogEntry(clock + 1, message, e))
    /\ UNCHANGED <<disk, corrupt, mtime, content, hist, openai, openaiApiKey, updateCallbacks, currentPath, contentElement, tasks, ret, faults>>

\* The button 'Clear Logs' of the settings tab.
ClearLogs ==
    /\ errorLogs' = <<>>
    /\ UNCHANGED <<disk, corrupt, mtime, content, hist, clock, openai, openaiApiKey, updateCallbacks, currentPath, contentElement, tasks, ret, faults>>

\* The error log alone: calls of logError and clears in any order.
NextLog ==
    \/ LogErrorCall("Error indexing", "Unknown")
    \/ ClearLogs

SpecLog == Init /\ [][NextLog]_vars

\* Direct calls of updateNoteEmbedding and queries of the view, one after the other, each
\* awaited, on documents of any content, against a provider and a storage that answer.
NextEmpty ==
    \/ \E t \in Tasks, k \in Keys, f \in BOOLEAN : Quiet /\ StartUpdate(t, k, f)
    \/ \E t \in Tasks, k \in Keys : Quiet /\ StartFind(t, k, MaxResults, Sim(1, 4))
    \/ \E t \in Tasks : CheckExisting(t)
    \/ \E t \in Tasks : ReadContent(t)
    \/ \E t \in Tasks : EmbedOk(t)
    \/ \E t \in Tasks : FindGet(t)
    \/ \E t \in Tasks : FindBootRead(t)
    \/ \E t \in Tasks : FindBootEmbedOk(t)
    \/ \E t \in Tasks : LoadStep(t)
    \/ \E t \in Tasks : WriteOk(t)
    \/ \E t \in Tasks : FindScan(t)

SpecEmpty == InitBoot /\ [][NextEmpty]_vars

\* One run of reindexAllNotes, forced or not, that the host asks to stop at any time;
\* documents of any content, a provider and a storage that answer.
NextCancel ==
    \/ \E t \in Tasks, f \in BOOLEAN : StartReindex(t, f)
    \/ \E t \in Tasks : RequestCancel(t)
    \/ \E t \in Tasks : CheckExisting(t)
    \/ \E t \in Tasks : ReadContent(t)
    \/ \E t \in Tasks : EmbedOk(t)
    \/ \E t \in Tasks : LoadStep(t)
    \/ \E t \in Tasks : WriteOk(t)
    \/ \E t \in Tasks : ReindexNext(t)

SpecCancel == InitBoot /\ [][NextCancel]_vars

\* The three indexing paths together, on documents that stay at one version while calls
\* are in flight: an edit (and its modify handler) happens only when nothing else runs;
\* a run of reindexAllNotes(false) and queries of the view start at any time; a provider
\* and a storage that answer.
NextOnce ==
    \/ \E t \in Tasks, k \in Keys, c \in Contents :
           (\A u \in Tasks : tasks[u].kind = "idle") /\ Modify(t, k, c)
    \/ \E t \in Tasks : StartReindex(t, FALSE)
    \/ \E t \in Tasks, k \in Keys : StartFind(t, k, MaxResults, Sim(1, 4))
    \/ \E t \in Tasks : CheckExisting(t)
    \/ \E t \in Tasks : ReadContent(t)
    \/ \E t \in Tasks : EmbedOk(t)
    \/ \E t \in Tasks : FindGet(t)
    \/ \E t \in Tasks : FindBootRead(t)
    \/ \E t \in Tasks : FindBootEmbedOk(t)
    \/ \E t \in Tasks : LoadStep(t)
    \/ \E t \in Tasks : WriteOk(t)
    \/ \E t \in Tasks : FindScan(t)
    \/ \E t \in Tasks : ReindexNext(t)

SpecOnce == Init /\ [][NextOnce]_vars

\* The API key field of the settings tab changes: the setting is assigned and saved.
SetApiKey(value) ==
    /\ value # openaiApiKey
    /\ openaiApiKey' = value
    /\ UNCHANGED <<disk, corrupt, mtime, content, hist, clock, openai, updateCallbacks, currentPath, contentElement, tasks, errorLogs, ret, faults>>

\* The key setting is changed at any time; documents are edited and updateNoteEmbedding
\* is called, one call at a time; a provider and a storage that answer.
NextKey ==
    \/ \E value \in ApiKeys : SetApiKey(value)
    \/ \E t \in Tasks, k \in Keys, c \in Contents : Quiet /\ Modify(t, k, c)
    \/ \E t \in Tasks, k \in Keys, f \in BOOLEAN : Quiet /\ StartUpdate(t, k, f)
    \/ \E t \in Tasks : CheckExisting(t)
    \/ \E t \in Tasks : ReadContent(t)
    \/ \E t \in Tasks : EmbedOk(t)
    \/ \E t \in Tasks : LoadStep(t)
    \/ \E t \in Tasks : WriteOk(t)

SpecKey == Init /\ [][NextKey]_vars

\* The view: notes are opened at any time, each opening starts a query (settings:
\* MaxResults matches, minSimilarity 0.5); a provider and a storage that answer.
NextView ==
    \/ \E t \in Tasks, k \in Keys : FileOpen(t, k, MaxResults, Sim(1, 4))
    \/ FileOpenOther
    \/ \E t \in Tasks : FindGet(t)
    \/ \E t \in Tasks : FindBootRead(t)
    \/ \E t \in Tasks : FindBootEmbedOk(t)
    \/ \E t \in Tasks : LoadStep(t)
    \/ \E t \in Tasks : WriteOk(t)
    \/ \E t \in Tasks : FindScan(t)
    \/ \E t \in Tasks : Render(t)

SpecView == InitStore /\ [][NextView]_vars

\* A query is between its two loads and no write to the store has begun.
Scanning ==
    /\ \E u \in Tasks : tasks[u].kind = "find" /\ tasks[u].pc = "scan"
    /\ \A u \in Tasks : tasks[u].kind # "save"

\* One query of the view (ui.ts: findSimilarNotes with settings.maxResults and
\* settings.minSimilarity) against any store, and one saveEmbedding of an indexing call
\* that lands between the two loads of the query.
NextFind ==
    \/ \E t \in Tasks, k \in FindKeys, n \in 1..MaxResults, m \in MinSimilarities :
           (\A u \in Tasks : tasks[u].kind = "idle") /\ StartFind(t, k, n, m)
    \/ \E t \in Tasks, k \in Keys : Scanning /\ StartSave(t, k, Embed(content[k]), mtime[k])
    \/ \E t \in Tasks : FindGet(t)
    \/ \E t \in Tasks : FindBootRead(t)
    \/ \E t \in Tasks : FindBootEmbedOk(t)
    \/ \E t \in Tasks, e \in ProviderErrors : FindBootEmbedFail(t, e)
    \/ \E t \in Tasks : LoadStep(t)
    \/ \E t \in Tasks : WriteOk(t)
    \/ \E t \in Tasks : WriteFail(t)
    \/ \E t \in Tasks : FindScan(t)

SpecFind == InitFind /\ [][NextFind]_vars

TypeOK ==
    /\ clock \in Nat
    /\ \A k \in Keys : mtime[k] \in 0..MaxTime /\ content[k] \in Texts \cup {NoContent}
    /\ \A t \in Tasks : tasks[t].pc \in {"idle", "check", "read", "embed", "load", "write", "sleep", "done",
                                         "get", "bootread", "bootembed", "scan", "rendered"}
    /\ ret.result \in {"none", "true", "false", "throw"}
    /\ Len(errorLogs) <= maxErrorLogs

-----------------------------------------------------------------------------
(* Properties *)

\* The task is between its load and its save.
InCycle(t) == tasks[t].pc = "write" /\ tasks[t].kind # "clear"

\* The record saveEmbedding task t wrote is what the store holds for its key.
Holds(t) ==
    /\ Has(disk, tasks[t].key)
    /\ Get(disk, tasks[t].key) =
           EmbeddingData(tasks[t].key, tasks[t].embedding, tasks[t].file_mtime)

\* C1: two saveEmbedding calls for distinct keys, interleaved in any order: once both
\* have completed (and nothing else ran), the store holds both keys, each with the value
\* its call wrote.
C1_BothPutsSurvive ==
    \A t, u \in Tasks :
        (/\ t # u
         /\ tasks[t].kind = "save" /\ tasks[u].kind = "save"
         /\ tasks[t].key # tasks[u].key
         /\ tasks[t].result = "ok" /\ tasks[u].result = "ok"
         /\ \A w \in Tasks \ {t, u} : tasks[w].kind = "idle")
        => Holds(t) /\ Holds(u)

\* C2: mutating operations are serialized: at most one of them is between its load and
\* its save at any time.
C2_OneCycleAtATime ==
    \A t, u \in Tasks : t # u => ~(InCycle(t) /\ InCycle(u))

\* C3: every stored record with sourceVersion v holds the embedding of the content its
\* document had at version v.
C3_VectorMatchesVersion ==
    \A i \in 1..Len(disk) :
        disk[i].embedding = Embed(hist[disk[i].path][disk[i].file_mtime])

\* C4: a call whose provider request failed wrote nothing to the store and threw to its caller.
C4_ProviderFailureLeavesStore ==
    ret.err \in ProviderErrors => ret.result = "throw" /\ ret.writes = 0

C4_Witness == ret.err \in ProviderErrors /\ ret.pre = "stale" /\ Has(disk, ret.key)

\* C5: two calls in sequence on one document at an unchanged version, the second with
\* force=false: when the first returned Updated it made exactly one provider call, and the
\* second returns Skipped and makes none.
C5_SecondCallSkips ==
    (ret.prev = "true" /\ ~ret.force)
        => ret.prevCalls = 1 /\ ret.result = "false" /\ ret.calls = 0

C5_Witness == ret.prev = "true" /\ ~ret.force /\ ret.result = "false"

\* C6: with force=false, a call that finds a record with sourceVersion >= the current
\* version returns Skipped, calls no provider and writes nothing.
C6_CurrentIsSkipped ==
    (~ret.force /\ ret.seen = "current")
        => ret.result = "false" /\ ret.calls = 0 /\ ret.writes = 0

\* The stored version is above the document's (restored) version, and the call skipped.
C6_Witness ==
    /\ ~ret.force /\ ret.seen = "current" /\ ret.result = "false"
    /\ Get(disk, ret.key).file_mtime > mtime[ret.key]

\* C7: with force=false, no record or a stale one, and an embedding obtained: the call
\* returns Updated after exactly one provider call, and the stored record carries the
\* document's current version.
C7_StaleIsUpdated ==
    (~ret.force /\ ret.seen \in {"absent", "stale"} /\ ret.err = "none")
        => /\ ret.result = "true" /\ ret.calls = 1
           /\ Has(disk, ret.key)
           /\ Get(disk, ret.key).file_mtime = mtime[ret.key]

C7_Witness ==
    /\ ~ret.force /\ ret.seen = "stale" /\ ret.result = "true"
    /\ mtime[ret.key] > 0

\* C8: with force=true the stored record is never read: whatever was stored, the call
\* requests an embedding and, when it gets one, overwrites the record and returns Updated.
C8_ForceAlwaysEmbeds ==
    ret.force
        => /\ ret.seen = "none"
           /\ ret.err = "none" =>
                /\ ret.result = "true" /\ ret.calls = 1 /\ ret.writes = 1
                /\ Has(disk, ret.key)
                /\ Get(disk, ret.key) =
                       EmbeddingData(ret.key, Embed(content[ret.key]), mtime[ret.key])

C8_Witness == ret.force /\ ret.pre = "current" /\ ret.result = "true"

\* A step of task t that needs no failure.
TaskStep(t) ==
    \/ CheckExisting(t) \/ ReadContent(t) \/ EmbedOk(t)
    \/ LoadStep(t) \/ WriteOk(t) \/ ReindexNext(t)

\* C9: reindexAllNotes calls updateNoteEmbedding for the files in order, each once; it is
\* never stuck, whatever failed before; it ends only after the last file; and the record
\* of every file it counted as updated is in the store from then on.
C9_ReindexCompletes ==
    \A t \in Tasks :
        tasks[t].kind = "reindex" =>
            LET tk == tasks[t] IN
            /\ Len(tk.outcomes) = tk.idx
            /\ \A i \in 1..Len(tk.outcomes) :
                  /\ tk.outcomes[i].key = tk.files[i]
                  /\ tk.outcomes[i].result = "true" =>
                        tk.outcomes[i].writes = 1 /\ Has(disk, tk.outcomes[i].key)
            /\ tk.pc = "done" => tk.idx = Len(tk.files)
            /\ tk.pc # "done" => ENABLED TaskStep(t)

Count(outcomes, P(_)) == Cardinality({i \in 1..Len(outcomes) : P(outcomes[i])})

Failed(o) == o.err # "none"
FailedWithKey(o) == o.err \notin {"none", "NoApiKey"}
Wrote(o) == o.writes = 1

Logged(o) ==
    \E j \in 1..Len(errorLogs) : errorLogs[j] = ErrorEntry("Error indexing", o.key, o.err)

-----------------------------------------------------------------------------
(* Properties of findSimilarNotes *)

\* The query of task t has returned after scanning the store.
Scanned(t) == tasks[t].kind = "find" /\ tasks[t].pc = "done" /\ tasks[t].calls = 0
                  /\ tasks[t].embedding # <<>>

\* The square-free comparison a >= b of two similarities that are numbers.
AtLeast(a, b) == a.num * b.den >= b.num * a.den

\* The entries of the scanned mapping that have a similarity to the query vector.
Comparable(tk, i) ==
    /\ tk.db[i].path # tk.key
    /\ Len(tk.db[i].embedding) = Len(tk.embedding)
    /\ ~IsNaN(CalculateCosineSimilarity(tk.embedding, tk.db[i].embedding))

\* C11: no match returned by findSimilarNotes(k, ...) has the path k.
C11_SelfExcluded ==
    \A t \in Tasks :
        (tasks[t].kind = "find" /\ tasks[t].pc = "done") =>
            \A i \in 1..Len(tasks[t].results) : tasks[t].results[i].path # tasks[t].key

\* The query's own record was scanned, an identical vector of another path was returned.
C11_Witness ==
    \E t \in Tasks :
        /\ Scanned(t)
        /\ Has(tasks[t].db, tasks[t].key)
        /\ \E i \in 1..Len(tasks[t].results) : tasks[t].results[i].similarity = Sim(1, 1)

\* C12: every match has similarity >= minSimilarity, and every other record of the scanned
\* mapping with similarity >= minSimilarity is a match, unless the list is full
\* (maxResults matches) and no match in it has a smaller similarity.
C12_ThresholdExact ==
    \A t \in Tasks :
        Scanned(t) =>
            LET tk == tasks[t] IN
            /\ \A i \in 1..Len(tk.results) :
                  /\ ~IsNaN(tk.results[i].similarity)
                  /\ AtLeast(tk.results[i].similarity, tk.minSimilarity)
            /\ \A i \in 1..Len(tk.db) :
                  (/\ Comparable(tk, i)
                   /\ AtLeast(CalculateCosineSimilarity(tk.embedding, tk.db[i].embedding),
                              tk.minSimilarity))
                  => \/ \E j \in 1..Len(tk.results) :
                          /\ tk.results[j].path = tk.db[i].path
                          /\ tk.results[j].similarity =
                                 CalculateCosineSimilarity(tk.embedding, tk.db[i].embedding)
                     \/ /\ Len(tk.results) = tk.maxResults
                        /\ \A j \in 1..Len(tk.results) :
                              AtLeast(tk.results[j].similarity,
                                      CalculateCosineSimilarity(tk.embedding, tk.db[i].embedding))

\* A record exactly at the threshold was returned and a record below it was not.
C12_Witness ==
    \E t \in Tasks :
        /\ Scanned(t)
        /\ \E j \in 1..Len(tasks[t].results) :
              /\ AtLeast(tasks[t].minSimilarity, tasks[t].results[j].similarity)
              /\ tasks[t].minSimilarity.num > 0
        /\ \E i \in 1..Len(tasks[t].db) :
              /\ Comparable(tasks[t], i)
              /\ ~AtLeast(CalculateCosineSimilarity(tasks[t].embedding, tasks[t].db[i].embedding),
                          tasks[t].minSimilarity)

\* C13: the matches are returned by non-increasing similarity.
C13_SortedDescending ==
    \A t \in Tasks :
        (tasks[t].kind = "find" /\ tasks[t].pc = "done") =>
            \A i \in 1..(Len(tasks[t].results) - 1) :
                AtLeast(tasks[t].results[i].similarity, tasks[t].results[i + 1].similarity)

\* Two matches of different similarity were returned against the order of the mapping.
C13_Witness ==
    \E t \in Tasks :
        /\ Scanned(t)
        /\ Len(tasks[t].results) = 2
        /\ tasks[t].results[1].similarity # tasks[t].results[2].similarity
        /\ IndexOf(tasks[t].db, tasks[t].results[1].path)
               > IndexOf(tasks[t].db, tasks[t].results[2].path)

Offending(tk, r) == r.path # tk.key /\ Len(r.embedding) # Len(tk.embedding)

\* The scanned mapping without its offending entries.
WithoutOffending(tk) == SelectSeq(tk.db, LAMBDA r : ~Offending(tk, r))

\* C16: a query whose scan met records of another dimension returns normally, without
\* those records, and with the list it returns when they are absent from the mapping.
C16_MismatchSkipped ==
    \A t \in Tasks :
        Scanned(t) =>
            LET tk == tasks[t] IN
            /\ tk.result = "ok" /\ tk.err = "none"
            /\ \A i \in 1..Len(tk.results) :
                  Len(Get(tk.db, tk.results[i].path).embedding) = Len(tk.embedding)
            /\ tk.results = FindSimilar(WithoutOffending(tk), tk.key, tk.embedding,
                                        tk.maxResults, tk.minSimilarity)

\* A record of another dimension was scanned before a record that was returned.
C16_Witness ==
    \E t \in Tasks :
        /\ Scanned(t)
        /\ Len(tasks[t].results) >= 1
        /\ \E i \in 1..Len(tasks[t].db) :
              /\ Offending(tasks[t], tasks[t].db[i])
              /\ i < IndexOf(tasks[t].db, tasks[t].results[1].path)

-----------------------------------------------------------------------------
(* Properties of the store used one operation at a time *)

\* The mapping a read of the store returns now.
Mapping == LoadDatabase(disk)

\* No operation was started after the operation of task t.
Latest(t) == \A u \in Tasks : u > t => tasks[u].kind = "idle"

\* The operation of task w may have changed the entry of k: it is a mutation of k, a
\* clear, or a mutation that went on after its read had failed.
Touches(w, k) ==
    /\ tasks[w].kind \in DbKinds
    /\ tasks[w].key = k \/ tasks[w].kind = "clear" \/ tasks[w].seen = "unreadable"

\* C15: saveEmbedding(k, v, t) that returned, then getEmbedding(k), with only operations
\* that leave k alone in between: the record returned has the embedding v and the
\* file_mtime t.
C15_RoundTrip ==
    \A t, u \in Tasks :
        (/\ t < u
         /\ tasks[t].kind = "save" /\ tasks[t].result = "ok"
         /\ tasks[u].kind = "get" /\ tasks[u].pc = "done"
         /\ tasks[u].key = tasks[t].key
         /\ \A w \in Tasks : (t < w /\ w < u) => ~Touches(w, tasks[t].key))
        => /\ tasks[u].result = "found"
           /\ tasks[u].embedding = tasks[t].embedding
           /\ tasks[u].file_mtime = tasks[t].file_mtime

\* The save replaced a record of k with another vector and version, and the get read it.
C15_Witness ==
    \E t, u \in Tasks :
        /\ t + 1 = u
        /\ tasks[t].kind = "save" /\ tasks[t].result = "ok" /\ tasks[t].seen = "json"
        /\ tasks[u].kind = "get" /\ tasks[u].result = "found"
        /\ tasks[u].key = tasks[t].key
        /\ tasks[t].file_mtime = 1
        /\ Len(disk) = 2 /\ disk[1].path = tasks[t].key

\* C17: the step in which the durable write of saveEmbedding, deleteEmbedding or
\* clearDatabase fails leaves the blob and the mapping read from it as they were, makes
\* the operation throw, and notifies no callback.
C17_WriteFailureLeavesStore ==
    [][\A t \in Tasks :
          (/\ tasks[t].kind \in DbKinds /\ tasks[t].pc = "write"
           /\ tasks'[t].err = "StorageError")
          => /\ disk' = disk /\ Mapping' = Mapping
             /\ tasks'[t].result = "throw"
             /\ tasks'[t].writes = 0 /\ tasks'[t].notified = 0]_vars

\* A write failed on a store that holds records.
C17_Witness ==
    \E t \in Tasks :
        /\ tasks[t].kind \in DbKinds /\ tasks[t].pc = "done"
        /\ tasks[t].err = "StorageError" /\ tasks[t].result = "throw"
        /\ Mapping # EmptyDb

\* C18: a mutating operation whose durable read failed has thrown and written nothing
\* when it is over.
C18_ReadFailurePropagates ==
    \A t \in Tasks :
        (tasks[t].kind \in DbKinds /\ tasks[t].seen = "unreadable" /\ tasks[t].pc = "done")
        => /\ tasks[t].result = "throw"
           /\ tasks[t].writes = 0

\* C19: with a blob that is not JSON, getEmbedding returns null for every key and
\* getAllEmbeddings the empty mapping; a saveEmbedding that follows returns normally unless
\* its own write fails, and the mapping is then exactly its record.
C19_CorruptReadsAsEmpty ==
    \A t \in Tasks :
        tasks[t].seen = "corrupt" =>
            /\ (tasks[t].kind = "get" /\ tasks[t].pc = "done") => tasks[t].result = "null"
            /\ (tasks[t].kind = "getAll" /\ tasks[t].pc = "done")
                   => tasks[t].result = "ok" /\ tasks[t].db = EmptyDb
            /\ (tasks[t].kind = "save" /\ tasks[t].pc = "done" /\ tasks[t].err = "none")
                   => /\ tasks[t].result = "ok"
                      /\ Latest(t) =>
                            Mapping = <<EmbeddingData(tasks[t].key, tasks[t].embedding,
                                                      tasks[t].file_mtime)>>

\* The damaged blob held a record of the key that was read as absent, and of another key
\* than the one saved afterwards.
C19_Witness ==
    \E t, u \in Tasks :
        /\ t < u /\ Latest(u)
        /\ tasks[t].kind = "get" /\ tasks[t].seen = "corrupt" /\ tasks[t].result = "null"
        /\ tasks[u].kind = "save" /\ tasks[u].seen = "corrupt" /\ tasks[u].result = "ok"
        /\ tasks[t].key # tasks[u].key
        /\ Len(disk) = 1

\* C20: the step in which the write of deleteEmbedding(k) lands leaves no entry of k and
\* every other entry as it was; the mapping is unchanged when k had no entry.
C20_DeleteExactlyOne ==
    [][\A t \in Tasks :
          (/\ tasks[t].kind = "delete" /\ tasks[t].pc = "write"
           /\ tasks[t].seen # "unreadable"
           /\ tasks'[t].err = "none")
          => /\ tasks'[t].result = "ok"
             /\ ~Has(Mapping', tasks[t].key)
             /\ \A j \in Keys \ {tasks[t].key} :
                   /\ Has(Mapping', j) <=> Has(Mapping, j)
                   /\ Has(Mapping, j) => Get(Mapping', j) = Get(Mapping, j)
             /\ ~Has(Mapping, tasks[t].key) => Mapping' = Mapping]_vars

\* The key was saved, then deleted, and the record of the other key is still there.
C20_Witness ==
    \E t, u \in Tasks :
        /\ t < u /\ Latest(u)
        /\ tasks[t].kind = "save" /\ tasks[t].result = "ok"
        /\ tasks[u].kind = "delete" /\ tasks[u].result = "ok" /\ tasks[u].seen = "json"
        /\ tasks[u].key = tasks[t].key
        /\ ~Has(Mapping, tasks[u].key)
        /\ Mapping # EmptyDb

-----------------------------------------------------------------------------
(* Properties of clearDatabase and of the update callbacks *)

\* C21: clearDatabase has returned, every operation started before it is over and none
\* was started after it: the mapping holds no record that was stored before the clear
\* (the records left by earlier runs, of version 0).
C21_ClearLeavesNoOldRecord ==
    \A c \in Tasks :
        (/\ tasks[c].kind = "clear" /\ tasks[c].result = "ok"
         /\ Quiet /\ Latest(c))
        => \A i \in 1..Len(Mapping) : Mapping[i].file_mtime # 0

\* The number of times callback c was called by the operation of task record tk.
Calls(tk, c) == Cardinality({j \in 1..Len(tk.invoked) : tk.invoked[j] = c})

\* C22: no callback is called by an operation that has not returned; in the step in which
\* the write of saveEmbedding, deleteEmbedding or clearDatabase lands, the blob becomes the
\* operation's mapping, every registered callback is called exactly once and the operation
\* returns; in the step in which the write fails, no callback is called.
C22_NotifiedOncePerPersist ==
    [][\A t \in Tasks :
          /\ tasks'[t].pc \in {"load", "write"} => tasks'[t].invoked = <<>>
          /\ (tasks[t].kind \in DbKinds /\ tasks[t].pc = "write" /\ tasks'[t].pc = "done")
             => IF tasks'[t].err = "none"
                    THEN /\ disk' = tasks[t].db
                         /\ tasks'[t].result = "ok"
                         /\ \A i \in 1..Len(updateCallbacks) :
                               Calls(tasks'[t], updateCallbacks[i]) = 1
                         /\ Len(tasks'[t].invoked) = Len(updateCallbacks)
                    ELSE /\ disk' = disk
                         /\ tasks'[t].invoked = <<>>]_vars

\* One operation's write landed with two callbacks registered, another's failed.
C22_Witness ==
    \E t, u \in Tasks :
        /\ tasks[t].kind \in DbKinds /\ tasks[t].result = "ok" /\ Len(tasks[t].invoked) = 2
        /\ tasks[u].kind \in DbKinds /\ tasks[u].err = "StorageError"

-----------------------------------------------------------------------------
(* Properties of the deletion of a document *)

\* The paths of the matches a query returned.
ResultPaths(tk) == {tk.results[i].path : i \in 1..Len(tk.results)}

\* C23: once the deletion of a document has been handled (nothing is in flight), the store
\* holds no record of its path, and a query for another document that scans the store
\* from then on does not return it.
C23_DeletedHasNoRecord ==
    /\ [](\A k \in Keys : (content[k] = NoContent /\ Quiet) => ~Has(Mapping, k))
    /\ [][\A t \in Tasks, k \in Keys :
            (/\ tasks[t].kind = "find" /\ tasks[t].pc = "scan"
             /\ content[k] = NoContent /\ tasks[t].key # k
             /\ tasks'[t].pc = "done")
            => k \notin ResultPaths(tasks'[t])]_vars

-----------------------------------------------------------------------------
(* Properties of the bootstrap of findSimilarNotes *)

\* The query of task t found no record of its document, and its bootstrap met no failure.
Bootstrapped(t) ==
    /\ tasks[t].kind = "find" /\ tasks[t].pc = "done"
    /\ tasks[t].seen = "absent" /\ IsMarkdownFile(tasks[t].key)
    /\ tasks[t].err = "none"

\* C24: a query for a document without a record, whose bootstrap met no failure, made one
\* provider call for the document's content, wrote the record and returned []; a query for
\* the same document that follows finds the record, makes no provider call and returns
\* the ranking of the mapping against the vector the first query stored.
C24_BootstrapThenRank ==
    \A t \in Tasks :
        Bootstrapped(t) =>
            /\ tasks[t].calls = 1 /\ tasks[t].writes = 1
            /\ tasks[t].embedding = Embed(content[tasks[t].key])
            /\ tasks[t].results = <<>> /\ tasks[t].result = "ok"
            /\ Has(Mapping, tasks[t].key)
            /\ Get(Mapping, tasks[t].key).embedding = tasks[t].embedding
            /\ \A u \in Tasks :
                  (/\ t < u /\ tasks[u].kind = "find" /\ tasks[u].pc = "done"
                   /\ tasks[u].key = tasks[t].key)
                  => /\ tasks[u].seen = "present" /\ tasks[u].calls = 0
                     /\ tasks[u].embedding = tasks[t].embedding
                     /\ tasks[u].results =
                            FindSimilar(tasks[u].db, tasks[u].key, tasks[t].embedding,
                                        tasks[u].maxResults, tasks[u].minSimilarity)

\* The second query returned a match.
C24_Witness ==
    \E t, u \in Tasks :
        /\ Bootstrapped(t) /\ t < u
        /\ tasks[u].kind = "find" /\ tasks[u].pc = "done" /\ tasks[u].key = tasks[t].key
        /\ Len(tasks[u].results) = 1

\* C25: a query whose bootstrap failed (provider error, empty content, missing key, storage
\* error) throws to its caller.
C25_BootstrapFailurePropagates ==
    \A t \in Tasks :
        (tasks[t].kind = "find" /\ tasks[t].pc = "done" /\ tasks[t].err # "none")
        => tasks[t].result = "throw"

-----------------------------------------------------------------------------
(* Properties of the error log *)

\* C26: the log never holds more than maxErrorLogs entries and is ordered newest first;
\* a call of logError puts its entry at index 0 and keeps the entries that were there in
\* their order, all of them or, when the log was full, all but the oldest.
C26_LogBoundedNewestFirst ==
    /\ [](/\ Len(errorLogs) <= maxErrorLogs
          /\ \A i \in 1..(Len(errorLogs) - 1) :
                errorLogs[i].timestamp > errorLogs[i + 1].timestamp)
    /\ [][clock' # clock =>
            /\ errorLogs' # <<>>
            /\ errorLogs'[1].timestamp = clock'
            /\ Len(errorLogs') = IF Len(errorLogs) < maxErrorLogs
                                     THEN Len(errorLogs) + 1 ELSE maxErrorLogs
            /\ \A i \in 2..Len(errorLogs') : errorLogs'[i] = errorLogs[i - 1]]_vars

\* The log is full and its oldest entries were dropped.
C26_Witness ==
    /\ Len(errorLogs) = maxErrorLogs
    /\ errorLogs[maxErrorLogs].timestamp > 1

-----------------------------------------------------------------------------
(* Properties of the check of the text *)

\* C27: the step in which updateNoteEmbedding or the bootstrap of findSimilarNotes hands
\* an empty or whitespace-only text to generateEmbedding ends the embedding request with
\* an error, without a provider call, and the operation ends without a write to the store.
C27_BlankRejected ==
    [][\A t \in Tasks :
          (/\ tasks[t].pc \in {"read", "bootread"} /\ tasks'[t] # tasks[t]
           /\ content[tasks[t].key] \in WhitespaceOnly)
          => /\ disk' = disk
             /\ tasks'[t].pc \in {"idle", "done"}
             /\ IF tasks[t].kind = "find"
                    THEN /\ tasks'[t].err = (IF openai THEN "EmptyText" ELSE "NoApiKey")
                         /\ tasks'[t].calls = 0 /\ tasks'[t].writes = 0
                    ELSE /\ ret'.err = (IF openai THEN "EmptyText" ELSE "NoApiKey")
                         /\ ret'.calls = 0 /\ ret'.writes = 0
                         /\ openai => ret'.result = "throw"]_vars

\* A forced update of a whitespace-only document with a record was rejected, the record
\* is still there.
C27_Witness ==
    /\ ret.err = "EmptyText" /\ ret.force /\ ret.pre = "current"
    /\ content[ret.key] = " "
    /\ Has(disk, ret.key)

-----------------------------------------------------------------------------
(* Properties of the interruption of reindexAllNotes *)

\* C28: a run of reindexAllNotes that was asked to stop and is between two documents
\* starts no further document: its next step ends the run, with no provider call and no
\* write to the store.
C28_CancelStopsBetweenDocuments ==
    [][\A t \in Tasks :
          (/\ tasks[t].kind = "reindex" /\ tasks[t].pc = "sleep" /\ tasks[t].cancel
           /\ tasks'[t] # tasks[t])
          => /\ tasks'[t].pc = "done"
             /\ tasks'[t].idx = tasks[t].idx
             /\ disk' = disk]_vars

-----------------------------------------------------------------------------
(* Properties of the ranking: order of insertion, zero norm *)

\* The orders in which the entries of a mapping may have been inserted.
Orders(db) ==
    {p \in [1..Len(db) -> 1..Len(db)] : \A i, j \in 1..Len(db) : p[i] = p[j] => i = j}

\* The mapping db with its entries inserted in the order p.
Reordered(db, p) == [i \in 1..Len(db) |-> db[p[i]]]

\* The paths of a list of matches, in order.
PathSeq(matches) == [i \in 1..Len(matches) |-> matches[i].path]

\* C29: the paths a query returned, in order, are the ones the same query returns on the
\* same mapping built in any other order of insertion.
C29_OrderIndependent ==
    \A t \in Tasks :
        Scanned(t) =>
            \A p \in Orders(tasks[t].db) :
                PathSeq(FindSimilar(Reordered(tasks[t].db, p), tasks[t].key, tasks[t].embedding,
                                    tasks[t].maxResults, tasks[t].minSimilarity))
                    = PathSeq(tasks[t].results)

\* The vector has zero norm.
ZeroNorm(vec) == DotProduct(vec, vec) = 0

\* The entries of the scanned mapping the query vector is compared with.
Candidates(tk) ==
    {i \in 1..Len(tk.db) :
        tk.db[i].path # tk.key /\ Len(tk.db[i].embedding) = Len(tk.embedding)}

\* C30: every similarity a query computed with a vector of zero norm is the number 0, and
\* a query whose own vector has zero norm returns what similarity 0 against every
\* candidate gives: with minSimilarity 0 the first maxResults candidates, in the order of
\* the mapping, and no match with a larger minSimilarity.
C30_ZeroNormIsZero ==
    \A t \in Tasks :
        Scanned(t) =>
            LET tk == tasks[t] IN
            /\ \A i \in Candidates(tk) :
                  (ZeroNorm(tk.embedding) \/ ZeroNorm(tk.db[i].embedding))
                  => /\ ~IsNaN(CalculateCosineSimilarity(tk.embedding, tk.db[i].embedding))
                     /\ CalculateCosineSimilarity(tk.embedding, tk.db[i].embedding).num = 0
            /\ ZeroNorm(tk.embedding)
                  => IF tk.minSimilarity.num = 0
                         THEN /\ Len(tk.results) =
                                     (IF Cardinality(Candidates(tk)) < tk.maxResults
                                          THEN Cardinality(Candidates(tk)) ELSE tk.maxResults)
                              /\ \A j \in 1..Len(tk.results) :
                                    tk.results[j].path \in {tk.db[i].path : i \in Candidates(tk)}
                         ELSE tk.results = <<>>

-----------------------------------------------------------------------------
(* Properties of the indexing paths together *)

\* The call of task t awaits the provider's answer.
AwaitsProvider(t) == tasks[t].pc \in {"embed", "bootembed"}

\* C31: no two calls with force=false (modify handler, reindexAllNotes, bootstrap of
\* findSimilarNotes) await the provider for the same document at the same time: the one
\* that started second made no provider call.
C31_AtMostOneProviderCall ==
    \A t, u \in Tasks :
        (t # u /\ tasks[t].key = tasks[u].key /\ ~tasks[t].force /\ ~tasks[u].force)
        => ~(AwaitsProvider(t) /\ AwaitsProvider(u))

-----------------------------------------------------------------------------
(* Properties of the view *)

\* C32: when every query of the view has returned and was rendered, the view shows the
\* outcome of the query for the note in currentPath.
C32_ViewShowsCurrentNote ==
    (/\ currentPath # NoKey
     /\ \A t \in Tasks : tasks[t].pc \in {"idle", "rendered"})
    => contentElement.path = currentPath

-----------------------------------------------------------------------------
(* Properties of the API key setting *)

\* C33: when generateEmbedding runs for a text that is not blank while the API key
\* setting holds a key, the request to the provider is made, whatever the setting was
\* when the plugin was loaded.
C33_NewKeyIsUsed ==
    [][\A t \in Tasks :
          (/\ tasks[t].pc = "read" /\ tasks'[t] # tasks[t]
           /\ openaiApiKey \notin WhitespaceOnly
           /\ content[tasks[t].key] \notin WhitespaceOnly)
          => tasks'[t].pc = "embed"]_vars

====
